---- MODULE Spec2Model ----
(***************************************************************************)
(* Audio_Stego, backend/app/app.py: a text message, encrypted under a      *)
(* passcode, is hidden in the least-significant bits of the sample bytes   *)
(* of a WAV file and recovered from them.                                  *)
(*                                                                         *)
(* Bytes are the integers 0..255, byte strings are sequences of bytes,     *)
(* Python strings are sequences of code points.  A call's outcome is a     *)
(* record: Return(v) for a returned value, Raise(exc, status, detail) for  *)
(* a raised exception (status 400 for the HTTPExceptions the handlers      *)
(* raise, 500 for an exception that escapes a handler).                    *)
(***************************************************************************)
EXTENDS Integers, Sequences, FiniteSets, TLC

VARIABLES frames, input, call, result, work, written, origLen, steps

vars == <<frames, input, call, result, work, written, origLen, steps>>

\* ------------------------------------------------------------- outcomes

Return(v) == [tag |-> "ok", value |-> v, exc |-> "", status |-> 200, detail |-> ""]

Raise(exc, status, detail) ==
    [tag |-> "raise", value |-> <<>>, exc |-> exc, status |-> status, detail |-> detail]

\* ------------------------------------------------------------ constants

\* MAGIC = b"STEG"
MAGIC == <<83, 84, 69, 71>>

SALT_LEN == 16

\* ------------------------------------------------------------ bit codec

Pow2(n) == 2 ^ n

\* mutant of _bytes_to_bits: the bits of each byte least significant first
_bytes_to_bits_lsb_first(data) ==
    [k \in 1..(8 * Len(data)) |->
        (data[((k - 1) \div 8) + 1] \div Pow2((k - 1) % 8)) % 2]

\* for byte in data: for i in range(7, -1, -1): bits.append((byte >> i) & 1)
_bytes_to_bits(data) ==
    [k \in 1..(8 * Len(data)) |->
        (data[((k - 1) \div 8) + 1] \div Pow2(7 - ((k - 1) % 8))) % 2]

\* mutant of ShiftIn: each bit placed above the ones read before it
RECURSIVE ShiftIn_lsb_first(_, _, _, _)
ShiftIn_lsb_first(bits, from, n, byte) ==
    IF n = 0 THEN byte
    ELSE ShiftIn_lsb_first(bits, from + 1, n - 1, byte + (bits[from] * Pow2(8 - n)))

\* byte = 0; for b in bits[i : i + 8]: byte = (byte << 1) | b
RECURSIVE ShiftIn(_, _, _, _)
ShiftIn(bits, from, n, byte) ==
    IF n = 0 THEN byte
    ELSE ShiftIn(bits, from + 1, n - 1, (byte * 2) + bits[from])

_bits_to_bytes(bits) ==
    IF Len(bits) % 8 # 0
    THEN Raise("ValueError", 500, "Bit length must be multiple of 8")
    ELSE Return([k \in 1..(Len(bits) \div 8) |-> ShiftIn(bits, 8 * (k - 1) + 1, 8, 0)])

\* struct.pack(">I", n) for 0 <= n < 2^32 (a payload of 4 GiB or more, for
\* which struct.pack raises, is beyond every buffer of the model).
PackU32(n) ==
    <<(n \div 16777216) % 256, (n \div 65536) % 256, (n \div 256) % 256, n % 256>>

\* struct.unpack(">I", b)[0]
UnpackU32(b) == (b[1] * 16777216) + (b[2] * 65536) + (b[3] * 256) + b[4]

\* mutant of SetLsb: the mask 0xFC clears bit 1 as well
SetLsb_mask_fc(byte, bit) == ((byte \div 4) * 4) + bit

\* mutant of SetLsb: the bit is or-ed in and the old one never cleared
SetLsb_or(byte, bit) == IF bit = 1 THEN ((byte \div 2) * 2) + 1 ELSE byte

\* frame_array[i] = (frame_array[i] & 0xFE) | bit
SetLsb(byte, bit) == ((byte \div 2) * 2) + bit

\* frames[i] & 1
Lsb(byte) == byte % 2

\* mutant of _embed_payload: a payload that fills the buffer is refused
_embed_payload_ge(fr, payload) ==
    LET bits == _bytes_to_bits(PackU32(Len(payload)) \o payload)
    IN  IF Len(bits) >= Len(fr)
        THEN Raise("HTTPException", 400, "Audio too small for payload")
        ELSE Return([i \in 1..Len(fr) |->
                        IF i <= Len(bits) THEN SetLsb(fr[i], bits[i]) ELSE fr[i]])

_embed_payload(fr, payload) ==
    LET length_prefix == PackU32(Len(payload))
        data == length_prefix \o payload
        bits == _bytes_to_bits(data)
    IN  IF Len(bits) > Len(fr)
        THEN Raise("HTTPException", 400, "Audio too small for payload")
        ELSE Return([i \in 1..Len(fr) |->
                        IF i <= Len(bits) THEN SetLsb(fr[i], bits[i]) ELSE fr[i]])

\* mutant of ExceedsFrames: a payload that ends at the last sample is refused
ExceedsFrames_ge(lengthBytes, n) ==
    \/ lengthBytes[1] >= 8
    \/ 32 + (UnpackU32(lengthBytes) * 8) >= n

\* 32 + total_bits > len(frames), with total_bits = length * 8.  Python's
\* integers are unbounded and the checker's are 32 bits wide: a length of
\* 2^27 or more (first length byte >= 8) makes 32 + 8 * length at least 2^30,
\* more than any buffer holds, and is decided before the product is formed.
ExceedsFrames(lengthBytes, n) ==
    \/ lengthBytes[1] >= 8
    \/ 32 + (UnpackU32(lengthBytes) * 8) > n

_extract_payload(fr) ==
    IF Len(fr) < 32
    THEN Raise("HTTPException", 400, "Audio too short")
    ELSE LET length_bits == [i \in 1..32 |-> Lsb(fr[i])]
             lengthBytes == _bits_to_bytes(length_bits).value
         IN  IF ExceedsFrames(lengthBytes, Len(fr))
             THEN Raise("HTTPException", 400, "Corrupted or incomplete data")
             ELSE LET total_bits == UnpackU32(lengthBytes) * 8
                      payload_bits == [i \in 1..total_bits |-> Lsb(fr[32 + i])]
                  IN  _bits_to_bytes(payload_bits)

\* --------------------------------------------------------- text and bytes

\* s[a:b] of Python for a, b counted from the start: the bounds are clipped
\* to the sequence (the callers turn s[-32:] and s[:-32] into such bounds).
Slice(s, a, b) ==
    LET clip(x) == IF x < 0 THEN 0 ELSE IF x > Len(s) THEN Len(s) ELSE x
        lo == clip(a)
        hi == clip(b)
    IN  IF hi <= lo THEN <<>> ELSE [i \in 1..(hi - lo) |-> s[lo + i]]

\* mutant of StartsWith: receiver and argument exchanged
StartsWith_swapped(s, prefix) ==
    /\ Len(prefix) >= Len(s)
    /\ \A i \in 1..Len(s) : prefix[i] = s[i]

\* payload.startswith(prefix)
StartsWith(s, prefix) ==
    /\ Len(s) >= Len(prefix)
    /\ \A i \in 1..Len(prefix) : s[i] = prefix[i]

Zeros(n) == [i \in 1..n |-> 0]

\* str.isspace(): the characters strip() removes.
IsSpace(c) ==
    c \in {9, 10, 11, 12, 13, 28, 29, 30, 31, 32, 133, 160, 5760, 8232, 8233, 8239, 8287, 12288}
         \cup (8192..8202)

\* not message.strip()
IsBlank(message) == \A i \in 1..Len(message) : IsSpace(message[i])

\* one code point of str.encode("utf-8")
EncodeCodePoint(c) ==
    IF c < 128 THEN <<c>>
    ELSE IF c < 2048 THEN <<192 + (c \div 64), 128 + (c % 64)>>
    ELSE IF c < 65536
         THEN <<224 + (c \div 4096), 128 + ((c \div 64) % 64), 128 + (c % 64)>>
         ELSE <<240 + (c \div 262144), 128 + ((c \div 4096) % 64),
                128 + ((c \div 64) % 64), 128 + (c % 64)>>

RECURSIVE EncodeFrom(_, _)
EncodeFrom(text, i) ==
    IF i > Len(text) THEN <<>>
    ELSE EncodeCodePoint(text[i]) \o EncodeFrom(text, i + 1)

\* text.encode("utf-8") (no surrogate code points in the model)
Utf8Encode(text) == EncodeFrom(text, 1)

IsCont(b) == b >= 128 /\ b < 192

\* bytes.decode("utf-8"), strict: UnicodeDecodeError on a stray continuation
\* byte, a truncated or overlong form, a surrogate, a value past U+10FFFF.
RECURSIVE DecodeFrom(_, _, _)
DecodeFrom(b, i, acc) ==
    IF i > Len(b) THEN Return(acc)
    ELSE LET b0 == b[i]
             bad == Raise("UnicodeDecodeError", 500, "invalid utf-8")
             has(k) == i + k <= Len(b) /\ \A j \in 1..k : IsCont(b[i + j])
         IN  IF b0 < 128 THEN DecodeFrom(b, i + 1, Append(acc, b0))
             ELSE IF b0 >= 194 /\ b0 < 224 /\ has(1)
             THEN DecodeFrom(b, i + 2, Append(acc, ((b0 - 192) * 64) + (b[i + 1] - 128)))
             ELSE IF b0 >= 224 /\ b0 < 240 /\ has(2)
             THEN LET c == ((b0 - 224) * 4096) + ((b[i + 1] - 128) * 64) + (b[i + 2] - 128)
                  IN  IF c < 2048 \/ (c >= 55296 /\ c < 57344) THEN bad
                      ELSE DecodeFrom(b, i + 3, Append(acc, c))
             ELSE IF b0 >= 240 /\ b0 < 245 /\ has(3)
             THEN LET c == ((b0 - 240) * 262144) + ((b[i + 1] - 128) * 4096)
                           + ((b[i + 2] - 128) * 64) + (b[i + 3] - 128)
                  IN  IF c < 65536 \/ c > 1114111 THEN bad
                      ELSE DecodeFrom(b, i + 4, Append(acc, c))
             ELSE bad

Utf8Decode(b) == DecodeFrom(b, 1, <<>>)

\* ------------------------------------------------------------- base64url

\* the URL-safe alphabet: A-Z a-z 0-9 - _
B64Char(v) ==
    IF v < 26 THEN 65 + v
    ELSE IF v < 52 THEN 97 + (v - 26)
    ELSE IF v < 62 THEN 48 + (v - 52)
    ELSE IF v = 62 THEN 45 ELSE 95

\* base64.urlsafe_b64encode(s): 3 bytes to 4 characters, "=" padding
urlsafe_b64encode(s) ==
    LET n == Len(s)
        at(j) == IF j <= n THEN s[j] ELSE 0
    IN  [k \in 1..(4 * ((n + 2) \div 3)) |->
            LET q == (k - 1) \div 4
                r == (k - 1) % 4
                b0 == at((3 * q) + 1)
                b1 == at((3 * q) + 2)
                b2 == at((3 * q) + 3)
            IN  IF r = 0 THEN B64Char(b0 \div 4)
                ELSE IF r = 1 THEN B64Char(((b0 % 4) * 16) + (b1 \div 16))
                ELSE IF r = 2
                THEN IF (3 * q) + 2 > n THEN 61
                     ELSE B64Char(((b1 % 16) * 4) + (b2 \div 64))
                ELSE IF (3 * q) + 3 > n THEN 61 ELSE B64Char(b2 % 64)]

\* the value of a character after urlsafe_b64decode has translated "-_" to
\* "+/" (so "+" and "/" are read too); 64 for a character outside the alphabet
B64Val(c) ==
    IF c >= 65 /\ c <= 90 THEN c - 65
    ELSE IF c >= 97 /\ c <= 122 THEN (c - 97) + 26
    ELSE IF c >= 48 /\ c <= 57 THEN (c - 48) + 52
    ELSE IF c = 45 \/ c = 43 THEN 62
    ELSE IF c = 95 \/ c = 47 THEN 63
    ELSE 64

IsB64(c) == B64Val(c) < 64

\* base64.urlsafe_b64decode(s), that is binascii.a2b_base64, not strict.
\* Its loop reads one character at a time: a character outside the alphabet
\* is skipped; an alphabet character moves quad_pos through 0, 1, 2, 3 and
\* clears the pad count; "=" read at quad_pos >= 2 is counted, and once
\* quad_pos + pads >= 4 the input ends there (what follows is not read).
\* At the end of the input a quad left open is binascii.Error.  The loop
\* is stated here by what each position sees, not by recursion.
urlsafe_b64decode(s) ==
    LET n == Len(s)
        quad_pos(i) == Cardinality({j \in 1..(i - 1) : IsB64(s[j])}) % 4
        pads(i) == Cardinality({j \in 1..i :
                        s[j] = 61 /\ \A k \in j..i : ~IsB64(s[k])})
        stops == {i \in 1..n :
                    s[i] = 61 /\ quad_pos(i) >= 2 /\ quad_pos(i) + pads(i) >= 4}
        end == IF stops = {} THEN n
               ELSE (CHOOSE i \in stops : \A j \in stops : i <= j) - 1
        read == SelectSeq(SubSeq(s, 1, end), IsB64)
        m == Len(read)
        v(j) == B64Val(read[j])
        nbytes == (3 * (m \div 4)) + (IF m % 4 = 2 THEN 1 ELSE IF m % 4 = 3 THEN 2 ELSE 0)
    IN  IF stops = {} /\ m % 4 # 0
        THEN Raise("binascii.Error", 500, "Incorrect padding")
        ELSE Return([t \in 1..nbytes |->
                LET q == 4 * ((t - 1) \div 3)
                    r == (t - 1) % 3
                IN  IF r = 0 THEN (v(q + 1) * 4) + (v(q + 2) \div 16)
                    ELSE IF r = 1 THEN ((v(q + 2) % 16) * 16) + (v(q + 3) \div 4)
                    ELSE ((v(q + 3) % 4) * 64) + v(q + 4)])

\* ------------------------------------------------------------ primitives
\* SHA-256 and AES are beyond a model checker.  They are replaced by small
\* stand-ins that keep what the program relies on: a digest that depends on
\* every byte of its input, and a keyed, invertible block transformation.
\* HMAC, PBKDF2, CBC chaining, PKCS#7 and the Fernet token layout around
\* them are those of the cryptography package the program imports.

DIGEST_LEN == 32

HMAC_BLOCK == 64

AES_BLOCK == 16

\* the weight of position i: never 0 modulo the prime 65521
Weight(i) == (i * 7919) % 65521

\* the weighted sum of s[lo..hi] modulo 65521, by halves
RECURSIVE Absorb(_, _, _)
Absorb(s, lo, hi) ==
    IF lo > hi THEN 0
    ELSE IF lo = hi THEN (Weight(lo) * (s[lo] + 1)) % 65521
    ELSE LET mid == (lo + hi) \div 2
         IN  (Absorb(s, lo, mid) + Absorb(s, mid + 1, hi)) % 65521

\* stand-in for hashes.SHA256(): DIGEST_LEN bytes spread from the absorbed
\* state; changing one byte of s, or its length, changes the state
Digest(s) ==
    LET h == Absorb(s, 1, Len(s))
    IN  [j \in 1..DIGEST_LEN |-> ((h * j) + (h \div 256) + (13 * j)) % 256]

\* HMAC's key block: a key longer than the block is hashed, and the key is
\* then padded with zero bytes to the block length (RFC 2104).
HmacKeyBlock(key) ==
    LET k == IF Len(key) > HMAC_BLOCK THEN Digest(key) ELSE key
    IN  k \o Zeros(HMAC_BLOCK - Len(k))

Hmac(key, msg) == Digest(HmacKeyBlock(key) \o msg)

\* PBKDF2HMAC(SHA256, length=32, salt, iterations).derive(password): the
\* first block, HMAC(password, salt || INT(1)), with the iterations that
\* re-apply the same keyed function left out.
Pbkdf2HmacDerive(password, salt) == Hmac(password, salt \o <<0, 0, 0, 1>>)

\* padding.PKCS7(128).padder()
Pkcs7Pad(data) ==
    LET p == AES_BLOCK - (Len(data) % AES_BLOCK)
    IN  data \o [i \in 1..p |-> p]

\* padding.PKCS7(128).unpadder(): ValueError on an empty input, a pad byte
\* outside 1..16 or pad bytes that differ
Pkcs7Unpad(data) ==
    LET n == Len(data)
        bad == Raise("ValueError", 500, "Invalid padding bytes.")
    IN  IF n = 0 \/ n % AES_BLOCK # 0 THEN bad
        ELSE LET p == data[n]
             IN  IF p < 1 \/ p > AES_BLOCK THEN bad
                 ELSE IF \E i \in (n - p + 1)..n : data[i] # p THEN bad
                 ELSE Return(Slice(data, 0, n - p))

\* stand-in for Cipher(AES(key), CBC(iv)).encryptor(): each block is
\* combined with the previous ciphertext block (the iv for the first) and
\* transformed under the key
CbcEncrypt(key, iv, padded) ==
    LET c[i \in 1..Len(padded)] ==
            (padded[i] + (IF i <= AES_BLOCK THEN iv[i] ELSE c[i - AES_BLOCK])
                       + key[((i - 1) % AES_BLOCK) + 1]) % 256
    IN  [i \in 1..Len(padded) |-> c[i]]

\* the decryptor: ValueError when the iv is not one block or the ciphertext
\* is not whole blocks
CbcDecrypt(key, iv, ciphertext) ==
    IF Len(iv) # AES_BLOCK THEN Raise("ValueError", 500, "Invalid IV size")
    ELSE IF Len(ciphertext) % AES_BLOCK # 0
    THEN Raise("ValueError", 500, "not a multiple of the block length")
    ELSE Return([i \in 1..Len(ciphertext) |->
            (((ciphertext[i] + 512)
               - (IF i <= AES_BLOCK THEN iv[i] ELSE ciphertext[i - AES_BLOCK]))
               - key[((i - 1) % AES_BLOCK) + 1]) % 256])

\* --------------------------------------------------------------- Fernet

InvalidToken == Raise("InvalidToken", 500, "")

\* Fernet(key): the key is base64url of 32 bytes, else ValueError; the first
\* 16 bytes sign, the last 16 encrypt
FernetKey(key) ==
    LET raw == urlsafe_b64decode(key)
    IN  IF raw.tag # "ok" \/ Len(raw.value) # 32
        THEN Raise("ValueError", 500, "Fernet key must be 32 url-safe base64-encoded bytes.")
        ELSE Return([signing |-> Slice(raw.value, 0, 16),
                     encryption |-> Slice(raw.value, 16, 32)])

\* Fernet(key).encrypt(data) at time current_time with the random iv
FernetEncrypt(key, data, current_time, iv) ==
    LET k == FernetKey(key).value
        ciphertext == CbcEncrypt(k.encryption, iv, Pkcs7Pad(data))
        basic_parts == <<128>> \o Zeros(4) \o PackU32(current_time) \o iv \o ciphertext
    IN  urlsafe_b64encode(basic_parts \o Hmac(k.signing, basic_parts))

\* Fernet(key).decrypt(token), no ttl: InvalidToken unless the token decodes,
\* starts with the version byte 0x80, holds at least 9 bytes, carries the
\* HMAC of what precedes it under the signing key, and decrypts and unpads
FernetDecrypt(key, token) ==
    LET k == FernetKey(key).value
        data == urlsafe_b64decode(token)
    IN  IF data.tag # "ok" THEN InvalidToken
        ELSE LET d == data.value
                 n == Len(d)
             IN  IF n = 0 \/ d[1] # 128 THEN InvalidToken
                 ELSE IF n < 9 THEN InvalidToken
                 ELSE IF Slice(d, n - 32, n) # Hmac(k.signing, Slice(d, 0, n - 32))
                 THEN InvalidToken
                 ELSE LET iv == Slice(d, 9, 25)
                          padded == CbcDecrypt(k.encryption, iv, Slice(d, 25, n - 32))
                      IN  IF padded.tag # "ok" THEN InvalidToken
                          ELSE LET plain == Pkcs7Unpad(padded.value)
                               IN  IF plain.tag # "ok" THEN InvalidToken ELSE plain

\* ------------------------------------------------------------- handlers

\* mutant of derive_key: the empty passcode is not refused
derive_key_unchecked(passcode, salt) ==
    [out |-> Return(urlsafe_b64encode(Pbkdf2HmacDerive(Utf8Encode(passcode), salt))),
     work |-> <<"PBKDF2HMAC.derive">>]

\* derive_key: the outcome, and the cryptographic work done to reach it
derive_key(passcode, salt) ==
    IF passcode = <<>>
    THEN [out |-> Raise("ValueError", 500, "Passcode is required"), work |-> <<>>]
    ELSE [out |-> Return(urlsafe_b64encode(Pbkdf2HmacDerive(Utf8Encode(passcode), salt))),
          work |-> <<"PBKDF2HMAC.derive">>]

\* POST /embed on the frames read from the upload; salt, current_time and iv
\* are what os.urandom and the clock give this call.  A ValueError of
\* derive_key is not caught here and leaves the handler.
embed(fr, message, passcode, salt, current_time, iv) ==
    IF IsBlank(message)
    THEN [out |-> Raise("HTTPException", 400, "Message is required"),
          work |-> <<>>, payload |-> <<>>]
    ELSE LET key == derive_key(passcode, salt)
         IN  IF key.out.tag # "ok"
             THEN [out |-> key.out, work |-> key.work, payload |-> <<>>]
             ELSE LET token == FernetEncrypt(key.out.value, Utf8Encode(message),
                                             current_time, iv)
                      payload == MAGIC \o salt \o token
                  IN  [out |-> _embed_payload(fr, payload),
                       work |-> key.work \o <<"Fernet.encrypt">>,
                       payload |-> payload]

\* mutant of Caught: only the two classes named, not their subclasses
Caught_exact(exc) == exc \in {"InvalidToken", "ValueError"}

\* except (InvalidToken, ValueError): UnicodeDecodeError is a ValueError
Caught(exc) == exc \in {"InvalidToken", "ValueError", "UnicodeDecodeError"}

\* what leaves the try block of extract for an outcome reached inside it
TryExcept(out) ==
    IF out.tag = "raise" /\ Caught(out.exc)
    THEN Raise("HTTPException", 400, "Invalid passcode or payload")
    ELSE out

\* POST /extract on the frames read from the upload
extract(fr, passcode) ==
    LET payload == _extract_payload(fr)
    IN  IF payload.tag # "ok" THEN [out |-> payload, work |-> <<>>]
        ELSE IF ~StartsWith(payload.value, MAGIC)
        THEN [out |-> Raise("HTTPException", 400, "No hidden payload found"),
              work |-> <<>>]
        ELSE LET salt == Slice(payload.value, Len(MAGIC), Len(MAGIC) + SALT_LEN)
                 token == Slice(payload.value, Len(MAGIC) + SALT_LEN, Len(payload.value))
                 key == derive_key(passcode, salt)
             IN  IF key.out.tag # "ok"
                 THEN [out |-> TryExcept(key.out), work |-> key.work]
                 ELSE LET plain == FernetDecrypt(key.out.value, token)
                      IN  [out |-> TryExcept(IF plain.tag # "ok" THEN plain
                                             ELSE Utf8Decode(plain.value)),
                           work |-> key.work \o <<"Fernet.decrypt">>]

\* ---------------------------------------------------------------- inputs

MaxRawLen == 2

MaxEmbeds == 2

\* sample bytes of an upload: digital silence, full scale, a ramp whose
\* least-significant bits alternate, and silence with one odd sample where
\* bit 1 of the length prefix is read
Patterns == {"silence", "full", "ramp", "click"}

Sample(pat, i) ==
    IF pat = "silence" THEN 0
    ELSE IF pat = "full" THEN 255
    ELSE IF pat = "ramp" THEN ((37 * i) + 11) % 256
    ELSE IF i = 31 THEN 1 ELSE 0

Carrier(n, pat) == [i \in 1..n |-> Sample(pat, i)]

\* bits of (length prefix || payload) for a payload of n bytes
BitsFor(n) == 8 * (4 + n)

\* buffer lengths around every capacity boundary of the raw payloads
CodecLens ==
    {0, 31} \cup {BitsFor(n) + d : n \in 0..MaxRawLen, d \in {-1, 0, 5}}

\* raw payloads: every length up to MaxRawLen, filled three ways
RawPayloads ==
    {[i \in 1..n |-> IF f = "mixed" THEN (90 + (75 * i)) % 256
                     ELSE IF f = "ones" THEN 255 ELSE 0] :
        n \in 0..MaxRawLen, f \in {"zeros", "ones", "mixed"}}

\* messages: empty, blank, ASCII, and non-ASCII inside whitespace
Messages == {<<>>, <<32>>, <<72, 73>>, <<32, 233, 10>>}

\* passcodes: empty, "a", "a" followed by U+0000, "b"
Passcodes == {<<>>, <<97>>, <<97, 0>>, <<98>>}

Salts == {[i \in 1..SALT_LEN |-> 17], [i \in 1..SALT_LEN |-> (29 * i) % 256]}

Ivs == {[i \in 1..AES_BLOCK |-> 200 - i]}

Times == {1730000000}

\* a token for a message of up to 15 bytes: 1 + 8 + 16 + 16 + 32 bytes,
\* 100 characters; its payload and the samples it needs
ShortTokenLen == Len(urlsafe_b64encode(Zeros(9 + (2 * AES_BLOCK) + DIGEST_LEN)))

ShortBits == BitsFor(Len(MAGIC) + SALT_LEN + ShortTokenLen)

AppLens == {31, ShortBits - 1, ShortBits, ShortBits + 128}

\* uploads that already carry a payload under passcode "a", written by
\* this service or by a tool that shares its format: two plaintexts that
\* are not UTF-8 (a stray 0xFF, a truncated two-byte form), and "HI"
ForeignPlaintexts == {<<255>>, <<72, 195>>, <<72, 73>>}

ForeignUploads ==
    {_embed_payload(Carrier(ShortBits + 128, "silence"),
        MAGIC \o salt \o FernetEncrypt(derive_key(<<97>>, salt).out.value, plain, t, iv)).value :
        salt \in Salts, plain \in ForeignPlaintexts, t \in Times, iv \in Ivs}

Uploads ==
    {Carrier(n, pat) : n \in AppLens, pat \in {"silence", "ramp", "click"}}
        \cup ForeignUploads

NoCall == [op |-> "none", payload |-> <<>>, message |-> <<>>, passcode |-> <<>>]

NothingWritten == [any |-> FALSE, payload |-> <<>>, message |-> <<>>, passcode |-> <<>>]

\* ------------------------------------------------------------------ state
\* frames   the sample bytes of the file the user holds
\* input    the sample bytes the last call was given
\* call     the last call and its arguments
\* result   the last call's outcome
\* work     the cryptographic operations the last call performed, in order
\* written  the payload of the last successful embedding into this file
\* origLen  the length of the file as first uploaded
\* steps    embeddings attempted so far

Start(files) ==
    /\ frames \in files
    /\ input = frames
    /\ call = NoCall
    /\ result = Return(<<>>)
    /\ work = <<>>
    /\ written = NothingWritten
    /\ origLen = Len(frames)
    /\ steps = 0

Init == Start(Uploads)

InitCodec == Start({Carrier(n, pat) : n \in CodecLens, pat \in Patterns})

\* a call of _embed_payload on the file; the result replaces the file
EmbedPayload ==
    /\ steps < MaxEmbeds
    /\ \E payload \in RawPayloads :
        \E out \in {_embed_payload(frames, payload)} :
            /\ call' = [op |-> "_embed_payload", payload |-> payload,
                        message |-> <<>>, passcode |-> <<>>]
            /\ result' = out
            /\ frames' = IF out.tag = "ok" THEN out.value ELSE frames
            /\ written' = IF out.tag = "ok"
                          THEN [any |-> TRUE, payload |-> payload,
                                message |-> <<>>, passcode |-> <<>>]
                          ELSE written
    /\ input' = frames
    /\ work' = <<>>
    /\ steps' = steps + 1
    /\ UNCHANGED origLen

\* a call of _extract_payload on the file
ExtractPayload ==
    /\ call' = [op |-> "_extract_payload", payload |-> <<>>,
                message |-> <<>>, passcode |-> <<>>]
    /\ result' = _extract_payload(frames)
    /\ input' = frames
    /\ work' = <<>>
    /\ UNCHANGED <<frames, written, origLen, steps>>

\* POST /embed as the first request on an upload: the response's file
\* replaces the one the user holds
Embed ==
    /\ call.op = "none"
    /\ \E message \in Messages, passcode \in Passcodes, salt \in Salts,
          t \in Times, iv \in Ivs :
        \E r \in {embed(frames, message, passcode, salt, t, iv)} :
            /\ call' = [op |-> "embed", payload |-> r.payload,
                        message |-> message, passcode |-> passcode]
            /\ result' = r.out
            /\ work' = r.work
            /\ frames' = IF r.out.tag = "ok" THEN r.out.value ELSE frames
            /\ written' = IF r.out.tag = "ok"
                          THEN [any |-> TRUE, payload |-> r.payload,
                                message |-> message, passcode |-> passcode]
                          ELSE written
    /\ input' = frames
    /\ steps' = steps + 1
    /\ UNCHANGED origLen

\* POST /extract
Extract ==
    /\ \E passcode \in Passcodes :
        \E r \in {extract(frames, passcode)} :
            /\ call' = [op |-> "extract", payload |-> <<>>,
                        message |-> <<>>, passcode |-> passcode]
            /\ result' = r.out
            /\ work' = r.work
    /\ input' = frames
    /\ UNCHANGED <<frames, written, origLen, steps>>

Next == Embed \/ Extract

NextCodec == EmbedPayload \/ ExtractPayload

Spec == Init /\ [][Next]_vars

SpecCodec == InitCodec /\ [][NextCodec]_vars

\* ----------------------------------------------------------- error kinds
\* The specification's error kinds, read off what the program raises.

ErrorKind(out) ==
    IF out.tag = "ok" THEN "none"
    ELSE IF out.detail \in {"Message is required", "Passcode is required",
                            "Bit length must be multiple of 8"} THEN "InvalidInput"
    ELSE IF out.detail \in {"Audio too small for payload", "Audio too short"}
    THEN "CapacityError"
    ELSE IF out.detail = "Corrupted or incomplete data" THEN "CorruptionError"
    ELSE IF out.detail = "No hidden payload found" THEN "FormatError"
    ELSE IF out.detail = "Invalid passcode or payload" THEN "AuthenticationError"
    ELSE "other"

\* bit i (1 = most significant) of the 32-bit big-endian form of L < 2^30
U32Bit(L, i) == IF i <= 2 THEN 0 ELSE (L \div (2 ^ (32 - i))) % 2

\* bit i (1-based, most significant bit of each byte first) of a byte string
BitAt(data, i) == (data[((i - 1) \div 8) + 1] \div (2 ^ (7 - ((i - 1) % 8)))) % 2

\* the least-significant bits of fr[1..32] spell the length L
DeclaresLen(fr, L) == \A i \in 1..32 : fr[i] % 2 = U32Bit(L, i)

\* some length that fits the buffer is declared by the first 32 samples
DeclaredFits(fr) ==
    Len(fr) >= 32 /\ \E L \in 0..((Len(fr) - 32) \div 8) : DeclaresLen(fr, L)

DeclaredLen(fr) == CHOOSE L \in 0..((Len(fr) - 32) \div 8) : DeclaresLen(fr, L)

\* the byte spelled, most significant bit first, by the least-significant
\* bits of the 8 samples after position at
LsbByte(fr, at) ==
    (128 * (fr[at + 1] % 2)) + (64 * (fr[at + 2] % 2)) + (32 * (fr[at + 3] % 2))
    + (16 * (fr[at + 4] % 2)) + (8 * (fr[at + 5] % 2)) + (4 * (fr[at + 6] % 2))
    + (2 * (fr[at + 7] % 2)) + (fr[at + 8] % 2)

\* the hidden payload the buffer's bits spell starts with the marker
SpellsMarker(fr) ==
    /\ DeclaredFits(fr)
    /\ DeclaredLen(fr) >= 4
    /\ \A k \in 1..4 : LsbByte(fr, 32 + (8 * (k - 1))) = MAGIC[k]

\* the token length for a message: base64 of 1 + 8 + 16 + ciphertext + 32
TokenLength(message) ==
    LET m == Len(Utf8Encode(message))
        raw == 57 + (16 * ((m \div 16) + 1))
    IN  4 * ((raw + 2) \div 3)

\* ------------------------------------------------------------------ C1
\* C1 as stated: round trip.  After an embed request with a non-empty
\* message and a non-empty passcode on a buffer of at least
\* 32 + 8 * (20 + tokenLength) samples, the request succeeded and extract on
\* the returned buffer with the same passcode returns exactly the message.
C1_RoundTripNonEmpty ==
    (/\ call.op = "embed"
     /\ call.message # <<>>
     /\ call.passcode # <<>>
     /\ Len(input) >= 32 + (8 * (20 + TokenLength(call.message))))
    => (/\ result.tag = "ok"
        /\ extract(frames, call.passcode).out = Return(call.message))

\* C1 amended: the same for every message that holds a character other than
\* whitespace (a message of whitespace only is refused like an empty one).
C1_RoundTripNonBlank ==
    (/\ call.op = "embed"
     /\ ~IsBlank(call.message)
     /\ call.passcode # <<>>
     /\ Len(input) >= 32 + (8 * (20 + TokenLength(call.message))))
    => (/\ result.tag = "ok"
        /\ frames = result.value
        /\ extract(frames, call.passcode).out = Return(call.message))

\* a non-ASCII message with leading and trailing whitespace went round on a
\* buffer of exactly the samples it needs
C1_Witness ==
    /\ call.op = "embed"
    /\ call.message = <<32, 233, 10>>
    /\ Len(input) = 32 + (8 * (20 + TokenLength(call.message)))
    /\ result.tag = "ok"
    /\ extract(frames, call.passcode).out = Return(call.message)

\* ------------------------------------------------------------------ C2
\* C2: passcode binding.  An extract request with a passcode other than the
\* one a successful embed into this buffer was given fails with
\* AuthenticationError.
C2_PasscodeBinding ==
    (/\ call.op = "extract"
     /\ written.any
     /\ call.passcode # written.passcode)
    => ErrorKind(result) = "AuthenticationError"

\* ------------------------------------------------------------------ C7
\* C7: an embed request with an empty message or an empty passcode fails
\* with InvalidInput, having done no key derivation and no encryption, and
\* returns no buffer, whatever the samples are.
C7_EmptyInputRefusedBeforeCrypto ==
    (call.op = "embed" /\ (call.message = <<>> \/ call.passcode = <<>>))
    => (/\ result.tag = "raise"
        /\ ErrorKind(result) = "InvalidInput"
        /\ work = <<>>
        /\ frames = input)

\* an embed of a real message under the empty passcode, on a buffer that
\* would have held it, was refused
C7_Witness ==
    /\ call.op = "embed"
    /\ call.message = <<72, 73>>
    /\ call.passcode = <<>>
    /\ Len(input) > 32 + (8 * (20 + TokenLength(call.message)))
    /\ result.detail = "Passcode is required"
    /\ work = <<>>

\* ------------------------------------------------------------------ C3
\* C3: bit-locality.  After a successful _embed_payload of a payload of n
\* bytes the output is as long as the input; every sample past the first
\* 8 * (4 + n) is the input's; every sample among the first 8 * (4 + n)
\* keeps the input's upper 7 bits and has as its least-significant bit the
\* i-th bit of (length prefix || payload).
C3_BitLocality ==
    (call.op = "_embed_payload" /\ result.tag = "ok")
    => LET n == Len(call.payload)
           out == result.value
       IN  /\ Len(out) = Len(input)
           /\ frames = out
           /\ \A i \in 1..Len(out) :
                IF i > 8 * (4 + n) THEN out[i] = input[i]
                ELSE /\ out[i] \div 2 = input[i] \div 2
                     /\ out[i] % 2 = (IF i <= 32 THEN U32Bit(n, i)
                                      ELSE BitAt(call.payload, i - 32))

\* a payload of two mixed bytes went into a ramp with samples to spare:
\* bits were flipped both ways and the tail was left alone
C3_Witness ==
    /\ call.op = "_embed_payload"
    /\ result.tag = "ok"
    /\ Len(call.payload) = 2
    /\ Len(input) > 8 * (4 + Len(call.payload))
    /\ \E i \in 1..48 : input[i] % 2 = 1 /\ result.value[i] = input[i] - 1
    /\ \E i \in 1..48 : input[i] % 2 = 0 /\ result.value[i] = input[i] + 1
    /\ input[1] > 1

\* ------------------------------------------------------------------ C4
\* C4: capacity boundary.  _embed_payload succeeds when the bit count of
\* (length prefix || payload) is at most the number of samples, exactly
\* equal included, and fails with CapacityError, returning no buffer, when
\* the bit count exceeds it by one or more.
C4_CapacityBoundary ==
    (call.op = "_embed_payload")
    => LET bits == 8 * (4 + Len(call.payload))
       IN  IF bits <= Len(input)
           THEN result.tag = "ok" /\ Len(result.value) = Len(input)
           ELSE /\ result.tag = "raise"
                /\ result.detail = "Audio too small for payload"
                /\ ErrorKind(result) = "CapacityError"
                /\ result.value = <<>>
                /\ frames = input

\* a non-empty payload filled the buffer to its last sample
C4_Witness ==
    /\ call.op = "_embed_payload"
    /\ Len(call.payload) > 0
    /\ Len(input) = 8 * (4 + Len(call.payload))
    /\ result.tag = "ok"

\* ------------------------------------------------------------------ C8
\* C8: _extract_payload has three outcomes, decided in this order:
\* CapacityError when there are fewer than 32 samples; else CorruptionError
\* when the length L spelled by the least-significant bits of samples 0..31
\* has 32 + 8 * L above the number of samples; else exactly L bytes, byte k
\* spelled most significant bit first by samples 32 + 8k .. 32 + 8k + 7,
\* whatever they are.
C8_ExtractOutcomes ==
    (call.op = "_extract_payload")
    => IF Len(input) < 32
       THEN result = Raise("HTTPException", 400, "Audio too short")
            /\ ErrorKind(result) = "CapacityError"
       ELSE IF ~DeclaredFits(input)
       THEN result = Raise("HTTPException", 400, "Corrupted or incomplete data")
            /\ ErrorKind(result) = "CorruptionError"
       ELSE /\ result.tag = "ok"
            /\ Len(result.value) = DeclaredLen(input)
            /\ \A k \in 1..Len(result.value) :
                 result.value[k] = LsbByte(input, 32 + (8 * (k - 1)))

\* two bytes that are neither 0 nor 255 were read back
C8_Witness ==
    /\ call.op = "_extract_payload"
    /\ result.tag = "ok"
    /\ Len(result.value) = 2
    /\ result.value[1] \notin {0, 255}
    /\ result.value[2] \notin {0, 255, result.value[1]}

\* ----------------------------------------------------------------- C10
\* C10: last embed wins.  After one or more successful _embed_payload calls
\* on a buffer, each on the previous one's output, the buffer has its
\* original length and _extract_payload returns exactly the last payload.
C10_LastEmbedWins ==
    (call.op = "_extract_payload" /\ written.any)
    => (/\ Len(frames) = origLen
        /\ result = Return(written.payload))

\* the last payload was read back from silence that still carries, past
\* the samples it used, odd samples of an earlier and longer payload
C10_Witness ==
    /\ call.op = "_extract_payload"
    /\ written.any
    /\ result = Return(written.payload)
    /\ \A i \in 1..Len(frames) : frames[i] < 2
    /\ \E i \in (8 * (4 + Len(written.payload)) + 1)..Len(frames) : frames[i] = 1

\* ------------------------------------------------------------------ C5
\* Length prefixes an attacker may write over the first 32 samples, as the
\* 4 bytes they spell: lengths around the embedded one, and large ones.
TamperPrefixes ==
    {PackU32(L) : L \in {0, 1, 119, 120, 121, 136, 137, 1000}}
        \cup {<<0, 1, 0, 0>>, <<128, 0, 0, 0>>, <<255, 255, 255, 255>>}

\* a < b as 32-bit big-endian numbers
U32Less(a, b) == \E i \in 1..4 : a[i] < b[i] /\ \A j \in 1..(i - 1) : a[j] = b[j]

\* the buffer with the least-significant bits of its first 32 samples
\* overwritten to spell the 4 bytes lp
WithLengthPrefix(fr, lp) ==
    [i \in 1..Len(fr) |-> IF i <= 32 THEN ((fr[i] \div 2) * 2) + BitAt(lp, i) ELSE fr[i]]

\* 32 + 8 * L <= n for the length L the 4 bytes lp spell, n < 2^19
PrefixFits(lp, n) ==
    lp[1] = 0 /\ lp[2] = 0 /\ 32 + (8 * ((lp[3] * 256) + lp[4])) <= n

\* C5 as stated: corruption detection.  After a successful embed, the
\* buffer with its length prefix overwritten to spell any larger length
\* fails extraction with CorruptionError.
C5_LargerLengthIsCorruption ==
    (call.op = "embed" /\ result.tag = "ok")
    => \A lp \in TamperPrefixes :
         U32Less(PackU32(Len(call.payload)), lp)
         => ErrorKind(extract(WithLengthPrefix(frames, lp), call.passcode).out)
              = "CorruptionError"

\* C5 amended: a larger length L' fails extraction with CorruptionError
\* exactly when 32 + 8 * L' exceeds the number of samples; a larger length
\* that the buffer still holds is not reported as corruption.
C5_OverlongLengthIsCorruption ==
    (call.op = "embed" /\ result.tag = "ok")
    => \A lp \in TamperPrefixes :
         U32Less(PackU32(Len(call.payload)), lp)
         => LET out == extract(WithLengthPrefix(frames, lp), call.passcode).out
            IN  IF PrefixFits(lp, Len(frames))
                THEN ErrorKind(out) # "CorruptionError"
                ELSE out = Raise("HTTPException", 400, "Corrupted or incomplete data")

\* an embed filled a buffer with samples to spare: of the larger lengths
\* one still fits it and one does not
C5_Witness ==
    /\ call.op = "embed"
    /\ result.tag = "ok"
    /\ \E lp \in TamperPrefixes :
         U32Less(PackU32(Len(call.payload)), lp) /\ PrefixFits(lp, Len(frames))
    /\ \E lp \in TamperPrefixes :
         /\ U32Less(PackU32(Len(call.payload)), lp)
         /\ ~PrefixFits(lp, Len(frames))
         /\ ErrorKind(extract(WithLengthPrefix(frames, lp), call.passcode).out)
              = "CorruptionError"

\* ------------------------------------------------------------------ C6
\* C6 as stated: no-payload detection.  An extract request on a buffer the
\* service never wrote, whose bits do not spell a payload that starts with
\* the marker, fails with FormatError.
C6_UnwrittenIsFormatError ==
    (call.op = "extract" /\ ~written.any /\ ~SpellsMarker(input))
    => ErrorKind(result) = "FormatError"

\* C6 amended: such a request fails with FormatError when the buffer has
\* at least 32 samples and the length L its first 32 samples spell has
\* 32 + 8 * L within the buffer (all-zero samples spell L = 0); a buffer
\* of fewer than 32 samples fails with CapacityError, and one whose L does
\* not fit fails with CorruptionError.  No message is returned.
C6_UnwrittenByLength ==
    (call.op = "extract" /\ ~written.any /\ ~SpellsMarker(input))
    => (/\ result.tag = "raise"
        /\ ErrorKind(result) =
             (IF Len(input) < 32 THEN "CapacityError"
              ELSE IF ~DeclaredFits(input) THEN "CorruptionError"
              ELSE "FormatError"))

\* silence with one odd sample spelled a length of 2 and two bytes that
\* are not the marker
C6_Witness ==
    /\ call.op = "extract"
    /\ ~written.any
    /\ DeclaredFits(input)
    /\ DeclaredLen(input) = 2
    /\ result = Raise("HTTPException", 400, "No hidden payload found")

\* ------------------------------------------------------------------ C9
\* the outcome of decrypting the token the buffer carries under a passcode
\* (InvalidToken when the buffer carries no marked payload)
Decrypted(fr, passcode) ==
    LET payload == _extract_payload(fr)
    IN  IF payload.tag # "ok" \/ ~StartsWith(payload.value, MAGIC) \/ passcode = <<>>
        THEN InvalidToken
        ELSE FernetDecrypt(
                derive_key(passcode, Slice(payload.value, 4, 4 + SALT_LEN)).out.value,
                Slice(payload.value, 4 + SALT_LEN, Len(payload.value)))

\* the token authenticates and decrypts, to bytes that are not UTF-8
DecryptsToNonUtf8(fr, passcode) ==
    /\ Decrypted(fr, passcode).tag = "ok"
    /\ Utf8Decode(Decrypted(fr, passcode).value).tag # "ok"

====
